---- MODULE Spec2Model ----
(***************************************************************************)
(* The image-analysis screen of the repository, in its two variants:       *)
(*   "plain"  : src/unnamed/part_000            (function App)             *)
(*   "styled" : src/frontend/src/pages/Index.tsx (const Index)             *)
(* The state is the component's React state, the file input element, the   *)
(* requests in flight and the object URLs handed out by the browser.  One  *)
(* action per event handler and per response continuation.                 *)
(*                                                                         *)
(* JavaScript values are encoded as strings: "null", "undefined", "true",  *)
(* "false" stand for the values of those names, "" for the empty string,   *)
(* any other string for itself.  A nullable object (results, previewUrl)   *)
(* is the empty sequence when null.                                        *)
(***************************************************************************)
EXTENDS Integers, Sequences, FiniteSets, Bags, TLC

VARIABLES variant, selectedFile, previewUrl, isLoading, error, results,
          apiHealth, isDragging, fileInput, pending, healthProbe, healthGets,
          nextUrl, toast, last, resultsFor

vars == <<variant, selectedFile, previewUrl, isLoading, error, results,
          apiHealth, isDragging, fileInput, pending, healthProbe, healthGets,
          nextUrl, toast, last, resultsFor>>

\* ---------------------------------------------------------------- bounds
\* Requests (sample downloads and analysis POSTs) in flight at once.
MaxPending == 2
\* Object URLs the browser hands out over a run.
MaxUrls == 2
\* Requests in flight at once when the handlers are called directly.
MaxDirectPending == 1
\* Entries of a prediction array.
MaxPreds == 6

\* ---------------------------------------------------------------- values
Variants == {"plain", "styled"}

NULL == "null"
UNDEFINED == "undefined"
NoUrl == <<>>
NoResults == <<>>
NoToast == "none"

\* A string as the sequence of its characters, for prefix tests.
ImagePrefix == <<"i", "m", "a", "g", "e", "/">>
TypePng == <<"i", "m", "a", "g", "e", "/", "p", "n", "g">>
TypeJpeg == <<"i", "m", "a", "g", "e", "/", "j", "p", "e", "g">>
TypePdf == <<"a", "p", "p", "l", "i", "c", "a", "t", "i", "o", "n", "/", "p", "d", "f">>
TypeNone == <<>>

\* Files the user can offer, by name; NoFile is an empty FileList (files[0]
\* undefined).
SampleFile == "sample.jpg"
UserFiles == {"cat.png", "notes.pdf"}
NoFile == UNDEFINED
Files == UserFiles \cup {SampleFile}

\* File.type
FileType(f) ==
  CASE f = "cat.png" -> TypePng
    [] f = "notes.pdf" -> TypePdf
    [] f = SampleFile -> TypeJpeg
    [] OTHER -> TypeNone

\* String.prototype.startsWith
startsWith(s, p) == Len(p) <= Len(s) /\ SubSeq(s, 1, Len(p)) = p

\* file.type.startsWith('image/')
IsImage(f) == startsWith(FileType(f), ImagePrefix)

\* JavaScript truthiness of an encoded value.
Truthy(v) == v \notin {NULL, UNDEFINED, "false", "", "0"}

\* a || b
JsOr(a, b) == IF Truthy(a) THEN a ELSE b

Modes == {"caption", "action", "combined"}

\* mode -> endpoint path (the switch of analyzeImage)
Endpoint(mode) ==
  CASE mode = "caption" -> "/api/caption"
    [] mode = "action" -> "/api/action"
    [] mode = "combined" -> "/api/combined"
    [] OTHER -> ""

\* -------------------------------------------------------------- numbers
\* A JSON number literal: integer part and the digits after the point.
Dec(i, f) == [int |-> i, frac |-> f]

RECURSIVE BitLength(_)
BitLength(n) == IF n = 0 THEN 0 ELSE 1 + BitLength(n \div 2)

RECURSIVE Pow10(_)
Pow10(k) == IF k = 0 THEN 1 ELSE 10 * Pow10(k - 1)

RECURSIVE DigitsValue(_)
DigitsValue(ds) ==
  IF ds = <<>> THEN 0 ELSE 10 * DigitsValue(SubSeq(ds, 1, Len(ds) - 1)) + ds[Len(ds)]

\* Binary expansion of num/den (0 <= num < den), cut after `need` significant
\* bits; `started` says that a 1 bit has been seen; rem/den is what is cut off,
\* in units of the last bit.
RECURSIVE FracBits(_, _, _, _)
FracBits(num, den, need, started) ==
  IF need = 0 \/ num = 0
    THEN [bits |-> <<>>, rem |-> num]
    ELSE LET b == IF 2 * num >= den THEN 1 ELSE 0
             s == started \/ b = 1
             rest == FracBits(2 * num - b * den, den, IF s THEN need - 1 ELSE need, s)
         IN [bits |-> <<b>> \o rest.bits, rem |-> rest.rem]

\* bits + one unit in the last place
RECURSIVE IncBits(_)
IncBits(bits) ==
  IF bits = <<>>
    THEN [bits |-> <<>>, carry |-> 1]
    ELSE LET init == SubSeq(bits, 1, Len(bits) - 1)
         IN IF bits[Len(bits)] = 0
              THEN [bits |-> init \o <<1>>, carry |-> 0]
              ELSE LET r == IncBits(init)
                   IN [bits |-> r.bits \o <<0>>, carry |-> r.carry]

\* response.json() on a number literal: the IEEE-754 double nearest to it (53
\* significant bits, ties to the even significand), held exactly as its integer
\* part and the bits after the binary point.
JSONNumber(lit) ==
  LET den == Pow10(Len(lit.frac))
      cut == FracBits(DigitsValue(lit.frac), den, 53 - BitLength(lit.int), lit.int > 0)
      odd == IF cut.bits = <<>> THEN lit.int % 2 = 1 ELSE cut.bits[Len(cut.bits)] = 1
      up == 2 * cut.rem > den \/ (2 * cut.rem = den /\ odd)
      inc == IncBits(cut.bits)
  IN IF up THEN [int |-> lit.int + inc.carry, bits |-> inc.bits]
     ELSE [int |-> lit.int, bits |-> cut.bits]

\* Decimal digits of (carry.ds) / 2, carry being the integer part (0 or 1).
RECURSIVE HalveDigits(_, _)
HalveDigits(carry, ds) ==
  IF ds = <<>>
    THEN IF carry = 1 THEN <<5>> ELSE <<>>
    ELSE LET cur == 10 * carry + Head(ds)
         IN <<cur \div 2>> \o HalveDigits(cur % 2, Tail(ds))

\* The exact decimal expansion of the binary fraction 0.bits
RECURSIVE BitsToDecimal(_)
BitsToDecimal(bits) ==
  IF bits = <<>> THEN <<>> ELSE HalveDigits(Head(bits), BitsToDecimal(Tail(bits)))

\* digits + one unit in the last place
RECURSIVE IncDigits(_)
IncDigits(ds) ==
  IF ds = <<>>
    THEN [digits |-> <<>>, carry |-> 1]
    ELSE LET init == SubSeq(ds, 1, Len(ds) - 1)
         IN IF ds[Len(ds)] < 9
              THEN [digits |-> init \o <<ds[Len(ds)] + 1>>, carry |-> 0]
              ELSE LET r == IncDigits(init)
                   IN [digits |-> r.digits \o <<0>>, carry |-> r.carry]

DigitAt(ds, i) == IF i <= Len(ds) THEN ds[i] ELSE 0

\* Number.prototype.toFixed rounding twice: to one digit more, then to the
\* digits asked for.
toFixed_RoundsTwice(x, fractionDigits) ==
  LET exact == BitsToDecimal(x.bits)
      first == [i \in 1..(fractionDigits + 1) |-> DigitAt(exact, i)]
      mid == IF DigitAt(exact, fractionDigits + 2) >= 5 THEN IncDigits(first).digits ELSE first
      kept == SubSeq(mid, 1, fractionDigits)
      inc == IncDigits(kept)
  IN IF mid[fractionDigits + 1] >= 5
       THEN [int |-> x.int + inc.carry, frac |-> inc.digits]
       ELSE [int |-> x.int, frac |-> kept]

\* Number.prototype.toFixed(fractionDigits) of a double 0 <= x < 1e21: the
\* integer n for which n / 10^fractionDigits - x is closest to zero, the larger
\* n when two are as close, written with the point before its last
\* fractionDigits digits.  The result is the text's integer part and digits.
toFixed(x, fractionDigits) ==
  LET exact == BitsToDecimal(x.bits)
      kept == [i \in 1..fractionDigits |-> DigitAt(exact, i)]
      inc == IncDigits(kept)
  IN IF DigitAt(exact, fractionDigits + 1) >= 5
       THEN [int |-> x.int + inc.carry, frac |-> inc.digits]
       ELSE [int |-> x.int, frac |-> kept]

\* ------------------------------------------------------------- messages
MsgInvalidFile == "Please select a valid image file"
MsgSelectFirst == "Please select an image first"
MsgSampleFailed == "Failed to load sample image"
MsgAnalysisFailed == "Analysis failed"
MsgConnection(v) ==
  IF v = "plain" THEN "Failed to analyze image. Ensure Flask server is running."
  ELSE "Failed to analyze image"

\* toast.error / toast.success exist in the styled variant only
Toast(v, msg) == IF v = "styled" THEN msg ELSE NoToast

\* ------------------------------------------------------------ responses
\* Values of a response's `caption` field: absent, or a string.
Captions == {UNDEFINED, "", "a cat on a mat", "a dog in a park"}

\* An optional object, number or array field of a body: the empty sequence
\* when absent, the one-element sequence of its value when present.
Absent == <<>>

\* JSON bodies the inference service may answer a caption POST with.
Bodies ==
  [success : {"true"}, error : {UNDEFINED}, caption : Captions,
   action : {Absent}, predicted_action : {UNDEFINED}, confidence : {Absent},
   all_predictions : {Absent}]
  \cup [success : {"false"}, error : {UNDEFINED, "", "Model not loaded"},
        caption : {UNDEFINED},
        action : {Absent}, predicted_action : {UNDEFINED}, confidence : {Absent},
        all_predictions : {Absent}]
  \cup [success : {UNDEFINED}, error : {UNDEFINED}, caption : {UNDEFINED},
        action : {Absent}, predicted_action : {UNDEFINED}, confidence : {Absent},
        all_predictions : {Absent}]

NoBody ==
  [success |-> UNDEFINED, error |-> UNDEFINED, caption |-> UNDEFINED,
   action |-> Absent, predicted_action |-> UNDEFINED, confidence |-> Absent,
   all_predictions |-> Absent]

\* Confidence values (percent) as the service writes them.
Confidences == {Dec(87, <<3, 4, 5>>), Dec(64, <<1, 2, 5>>), Dec(99, <<9, 9, 5>>)}

\* The i-th entry of the service's prediction array: neither sorted by
\* probability nor free of repeated entries.
Prediction(i) ==
  CASE i % 3 = 1 -> [class |-> "walking", probability |-> JSONNumber(Dec(12, <<5>>))]
    [] i % 3 = 2 -> [class |-> "running", probability |-> JSONNumber(Dec(62, <<2, 5>>))]
    [] OTHER -> [class |-> "jumping", probability |-> JSONNumber(Dec(25, <<2, 5>>))]

\* Prediction arrays of every length up to MaxPreds.
PredictionLists == {[i \in 1..n |-> Prediction(i)] : n \in 0..MaxPreds}

\* The action fields of a body, as /api/action puts them at the top level and
\* /api/combined under `action`.
ActionFacets ==
  [predicted_action : {"running"},
   confidence : {<<JSONNumber(c)>> : c \in Confidences},
   all_predictions : {<<l>> : l \in PredictionLists}]

\* Successful bodies of /api/combined (action fields nested) and of /api/action
\* (flattened; predicted_action may be the empty string).
ActionBodies ==
  {[success |-> "true", error |-> UNDEFINED, caption |-> "a cat on a mat",
    action |-> <<f>>, predicted_action |-> UNDEFINED, confidence |-> Absent,
    all_predictions |-> Absent] : f \in ActionFacets}
  \cup {[success |-> "true", error |-> UNDEFINED, caption |-> UNDEFINED,
         action |-> Absent, predicted_action |-> p, confidence |-> f.confidence,
         all_predictions |-> f.all_predictions] :
          f \in ActionFacets, p \in {"", "running"}}

ActionResponses == {[kind |-> "json", body |-> b] : b \in ActionBodies}

\* Successful bodies in which caption, action, predicted_action, confidence
\* and all_predictions are each present or absent, at the top level and under
\* `action`: the service's answers are not validated.
PartialFacets ==
  [predicted_action : {UNDEFINED, "running"},
   confidence : {Absent, <<JSONNumber(Dec(64, <<1, 2, 5>>))>>},
   all_predictions : {Absent, <<[i \in 1..2 |-> Prediction(i)]>>}]

PartialBodies ==
  [success : {"true"}, error : {UNDEFINED}, caption : {UNDEFINED, "a cat on a mat"},
   action : {Absent} \cup {<<f>> : f \in PartialFacets},
   predicted_action : {UNDEFINED, "running"},
   confidence : {Absent, <<JSONNumber(Dec(64, <<1, 2, 5>>))>>},
   all_predictions : {Absent, <<[i \in 1..2 |-> Prediction(i)]>>}]

PartialResponses == {[kind |-> "json", body |-> b] : b \in PartialBodies}

\* What `await fetch(...)` followed by `await response.json()` yields.
AnalysisResponses ==
  {[kind |-> "network_error", body |-> NoBody],
   [kind |-> "parse_error", body |-> NoBody]}
  \cup {[kind |-> "json", body |-> b] : b \in Bodies}

\* What fetching the sample URL yields: the image, an HTTP error page (fetch
\* resolves, response.blob() succeeds), or a rejected fetch.
SampleResponses == {"ok", "http_error", "network_error"}

\* What the health GET yields.
HealthResponses == {"healthy", "down", "parse_error", "network_error"}

NoResp == [kind |-> "none", body |-> NoBody]

\* Requests in flight.
SampleRequest == [kind |-> "sample", file |-> NULL, mode |-> "none"]
AnalysisRequest(file, mode) == [kind |-> "analysis", file |-> file, mode |-> mode]

InFlight == BagCardinality(pending)

\* ----------------------------------------------------- history variables
\* `healthProbe` is "pending" until the health GET settles and then what it
\* settled with; `healthGets` counts the health GETs issued; `resultsFor` is the
\* file carried by the request whose response `results` holds.
\* `last` names the last file, sample, analysis, reset or dismiss operation, with
\* the screen fields as they were before it; `toast` is the toast it raised.
Snapshot ==
  [selectedFile |-> selectedFile, previewUrl |-> previewUrl,
   isLoading |-> isLoading, error |-> error, results |-> results,
   fileInput |-> fileInput, inFlight |-> InFlight]

Did(op, file, mode, resp) ==
  last' = [op |-> op, file |-> file, mode |-> mode, resp |-> resp, pre |-> Snapshot]

\* ------------------------------------------------------------- rendering
\* <input type="file"> is rendered only inside the upload section/zone
\* (!previewUrl); fileInputRef.current is null while it is not rendered, and a
\* newly mounted input has the empty value.
FileInputAfter(url, value) ==
  IF url # NoUrl THEN NULL
  ELSE IF value = NULL THEN "" ELSE value

\* Controls the render offers.
ChooseImageEnabled == previewUrl = NoUrl
DropEnabled == variant = "styled" /\ previewUrl = NoUrl
LoadSampleEnabled ==
  /\ previewUrl = NoUrl
  /\ (variant = "styled" => ~isLoading)
AnalyzeEnabled == previewUrl # NoUrl /\ ~isLoading
ResetEnabled ==
  IF variant = "plain" THEN results # NoResults /\ ~isLoading
  ELSE previewUrl # NoUrl
DismissEnabled == Truthy(error)

\* Views the render shows.
LoadingVisible ==
  IF variant = "plain" THEN isLoading
  ELSE previewUrl # NoUrl /\ isLoading
ResultsVisible ==
  IF variant = "plain" THEN results # NoResults /\ ~isLoading
  ELSE results # NoResults /\ ~Truthy(error)
ErrorVisible == Truthy(error)

\* ----------------------------------------------------------------- Init
Init ==
  /\ variant \in Variants
  /\ selectedFile = NULL
  /\ previewUrl = NoUrl
  /\ isLoading = FALSE
  /\ error = NULL
  /\ results = NoResults
  /\ apiHealth = FALSE
  /\ isDragging = FALSE
  /\ fileInput = ""
  /\ pending = EmptyBag
  /\ healthProbe = "pending"
  /\ healthGets = 1
  /\ resultsFor = NULL
  /\ nextUrl = 1
  /\ toast = NoToast
  /\ last = [op |-> "mount", file |-> NoFile, mode |-> "none", resp |-> NoResp,
             pre |-> [selectedFile |-> NULL, previewUrl |-> NoUrl,
                      isLoading |-> FALSE, error |-> NULL, results |-> NoResults,
                      fileInput |-> "", inFlight |-> 0]]

\* ------------------------------------------------------------- handlers
\* checkHealth without the `data.status === 'healthy'` test.
checkHealth_AnyJson(r) ==
  /\ healthProbe = "pending"
  /\ healthProbe' = r
  /\ apiHealth' = IF r \in {"healthy", "down"} THEN TRUE ELSE FALSE
  /\ UNCHANGED <<variant, healthGets, selectedFile, previewUrl, isLoading, error,
                 results, resultsFor, isDragging, fileInput, pending, nextUrl,
                 toast, last>>

\* checkHealth, from `await fetch` on.
checkHealth(r) ==
  /\ healthProbe = "pending"
  /\ healthProbe' = r
  /\ apiHealth' = IF r = "healthy" THEN TRUE
                  ELSE IF r \in {"parse_error", "network_error"} THEN FALSE
                  ELSE apiHealth
  /\ UNCHANGED <<variant, healthGets, selectedFile, previewUrl, isLoading, error, results, resultsFor,
                 isDragging, fileInput, pending, nextUrl, toast, last>>

\* processFile without `setResults(null)`.
processFile_KeepsResults(file) ==
  /\ selectedFile' = file
  /\ error' = NULL
  /\ UNCHANGED <<results, resultsFor>>
  /\ previewUrl' = <<nextUrl, file>>
  /\ nextUrl' = nextUrl + 1

\* processFile: the four state updates and URL.createObjectURL.
processFile(file) ==
  /\ selectedFile' = file
  /\ error' = NULL
  /\ results' = NoResults
  /\ resultsFor' = NULL
  /\ previewUrl' = <<nextUrl, file>>
  /\ nextUrl' = nextUrl + 1

\* handleImageSelect: the input's change event with `file` chosen.
handleImageSelect(file) ==
  /\ IF file = NoFile
       THEN /\ fileInput' = ""
            /\ toast' = NoToast
            /\ UNCHANGED <<selectedFile, previewUrl, error, results, resultsFor, nextUrl>>
       ELSE IF ~IsImage(file)
         THEN /\ error' = MsgInvalidFile
              /\ toast' = Toast(variant, "Invalid file type")
              /\ fileInput' = file
              /\ UNCHANGED <<selectedFile, previewUrl, results, resultsFor, nextUrl>>
         ELSE /\ processFile(file)
              /\ toast' = NoToast
              /\ fileInput' = FileInputAfter(previewUrl', file)
  /\ Did("handleImageSelect", file, "none", NoResp)
  /\ UNCHANGED <<variant, healthGets, isLoading, apiHealth, isDragging, pending, healthProbe>>

\* handleDrop with `if (file)` for `if (file && file.type.startsWith('image/'))`.
handleDrop_NoTypeCheck(file) ==
  /\ isDragging' = FALSE
  /\ IF file # NoFile
       THEN /\ processFile(file)
            /\ toast' = NoToast
            /\ fileInput' = FileInputAfter(previewUrl', fileInput)
       ELSE /\ toast' = Toast(variant, "Please drop a valid image file")
            /\ UNCHANGED <<selectedFile, previewUrl, error, results, resultsFor, nextUrl, fileInput>>
  /\ Did("handleDrop", file, "none", NoResp)
  /\ UNCHANGED <<variant, healthGets, isLoading, apiHealth, pending, healthProbe>>

\* handleDrop (styled variant).
handleDrop(file) ==
  /\ isDragging' = FALSE
  /\ IF file # NoFile /\ IsImage(file)
       THEN /\ processFile(file)
            /\ toast' = NoToast
            /\ fileInput' = FileInputAfter(previewUrl', fileInput)
       ELSE /\ toast' = Toast(variant, "Please drop a valid image file")
            /\ UNCHANGED <<selectedFile, previewUrl, error, results, resultsFor, nextUrl, fileInput>>
  /\ Did("handleDrop", file, "none", NoResp)
  /\ UNCHANGED <<variant, healthGets, isLoading, apiHealth, pending, healthProbe>>

\* onDragOver / onDragLeave of the upload zone (styled variant).
setIsDragging(b) ==
  /\ isDragging' = b
  /\ UNCHANGED <<variant, healthGets, selectedFile, previewUrl, isLoading, error, results, resultsFor,
                 apiHealth, fileInput, pending, healthProbe, nextUrl, toast, last>>

\* loadSampleImage, up to `await fetch(sampleImageUrl)`.
loadSampleImage ==
  /\ isLoading' = TRUE
  /\ pending' = pending (+) SetToBag({SampleRequest})
  /\ toast' = NoToast
  /\ Did("loadSampleImage", NoFile, "none", NoResp)
  /\ UNCHANGED <<variant, healthGets, selectedFile, previewUrl, error, results, resultsFor, apiHealth,
                 isDragging, fileInput, healthProbe, nextUrl>>

\* loadSampleImage, from the fetch's settlement to the end of `finally`.
loadSampleImageDone(r) ==
  /\ BagIn(SampleRequest, pending)
  /\ pending' = pending (-) SetToBag({SampleRequest})
  /\ IF r = "network_error"
       THEN /\ error' = MsgSampleFailed
            /\ toast' = Toast(variant, "Failed to load sample")
            /\ UNCHANGED <<selectedFile, previewUrl, results, resultsFor, nextUrl, fileInput>>
       ELSE /\ processFile(SampleFile)
            /\ toast' = NoToast
            /\ fileInput' = FileInputAfter(previewUrl', fileInput)
  /\ isLoading' = FALSE
  /\ Did("loadSampleImageDone", SampleFile, "none", [kind |-> r, body |-> NoBody])
  /\ UNCHANGED <<variant, healthGets, apiHealth, isDragging, healthProbe>>

\* analyzeImage without the `if (!selectedFile)` guard.
analyzeImage_NoGuard(mode) ==
  /\ isLoading' = TRUE
  /\ error' = NULL
  /\ pending' = pending (+) SetToBag({AnalysisRequest(selectedFile, mode)})
  /\ toast' = NoToast
  /\ Did("analyzeImage", selectedFile, mode, NoResp)
  /\ UNCHANGED <<variant, healthGets, selectedFile, previewUrl, results, resultsFor, apiHealth,
                 isDragging, fileInput, healthProbe, nextUrl>>

\* analyzeImage, up to `await fetch(...)`.
analyzeImage(mode) ==
  /\ IF ~Truthy(selectedFile)
       THEN /\ error' = MsgSelectFirst
            /\ UNCHANGED <<isLoading, pending>>
       ELSE /\ isLoading' = TRUE
            /\ error' = NULL
            /\ pending' = IF variant = "plain" /\ Endpoint(mode) = ""
                            THEN pending  \* plain: `default: return`
                            ELSE pending (+) SetToBag({AnalysisRequest(selectedFile, mode)})
  /\ toast' = NoToast
  /\ Did("analyzeImage", selectedFile, mode, NoResp)
  /\ UNCHANGED <<variant, healthGets, selectedFile, previewUrl, results, resultsFor, apiHealth,
                 isDragging, fileInput, healthProbe, nextUrl>>

\* analyzeImage storing a response only when no result is held.
analyzeImageDone_KeepsFirst(req, r) ==
  /\ BagIn(req, pending)
  /\ req.kind = "analysis"
  /\ pending' = pending (-) SetToBag({req})
  /\ IF r.kind = "json"
       THEN IF Truthy(r.body.success)
              THEN /\ IF results = NoResults
                        THEN results' = <<r.body>> /\ resultsFor' = req.file
                        ELSE UNCHANGED <<results, resultsFor>>
                   /\ toast' = Toast(variant, "Analysis complete!")
                   /\ UNCHANGED error
              ELSE /\ error' = JsOr(r.body.error, MsgAnalysisFailed)
                   /\ toast' = Toast(variant, "Analysis failed")
                   /\ UNCHANGED <<results, resultsFor>>
       ELSE /\ error' = MsgConnection(variant)
            /\ toast' = Toast(variant, "Connection error")
            /\ UNCHANGED <<results, resultsFor>>
  /\ isLoading' = FALSE
  /\ Did("analyzeImageDone", req.file, "none", r)
  /\ UNCHANGED <<variant, healthGets, selectedFile, previewUrl, apiHealth, isDragging,
                 fileInput, healthProbe, nextUrl>>

\* analyzeImage, from the fetch's settlement to the end of `finally`.
analyzeImageDone(req, r) ==
  /\ BagIn(req, pending)
  /\ req.kind = "analysis"
  /\ pending' = pending (-) SetToBag({req})
  /\ IF r.kind = "json"
       THEN IF Truthy(r.body.success)
              THEN /\ results' = <<r.body>>
                   /\ resultsFor' = req.file
                   /\ toast' = Toast(variant, "Analysis complete!")
                   /\ UNCHANGED error
              ELSE /\ error' = JsOr(r.body.error, MsgAnalysisFailed)
                   /\ toast' = Toast(variant, "Analysis failed")
                   /\ UNCHANGED <<results, resultsFor>>
       ELSE /\ error' = MsgConnection(variant)
            /\ toast' = Toast(variant, "Connection error")
            /\ UNCHANGED <<results, resultsFor>>
  /\ isLoading' = FALSE
  /\ Did("analyzeImageDone", req.file, "none", r)
  /\ UNCHANGED <<variant, healthGets, selectedFile, previewUrl, apiHealth, isDragging,
                 fileInput, healthProbe, nextUrl>>

\* resetAnalysis.
resetAnalysis ==
  /\ selectedFile' = NULL
  /\ previewUrl' = NoUrl
  /\ results' = NoResults
  /\ resultsFor' = NULL
  /\ error' = NULL
  /\ fileInput' = FileInputAfter(NoUrl, IF fileInput # NULL THEN "" ELSE fileInput)
  /\ toast' = NoToast
  /\ Did("resetAnalysis", NoFile, "none", NoResp)
  /\ UNCHANGED <<variant, healthGets, isLoading, apiHealth, isDragging, pending, healthProbe,
                 nextUrl>>

\* Dismiss bound to a handler that clears the results with the error.
dismissError_ClearsResults ==
  /\ error' = NULL
  /\ results' = NoResults
  /\ resultsFor' = NULL
  /\ toast' = NoToast
  /\ Did("dismissError", NoFile, "none", NoResp)
  /\ UNCHANGED <<variant, healthGets, selectedFile, previewUrl, isLoading,
                 apiHealth, isDragging, fileInput, pending, healthProbe, nextUrl>>

\* The Dismiss button: setError(null).
dismissError ==
  /\ error' = NULL
  /\ toast' = NoToast
  /\ Did("dismissError", NoFile, "none", NoResp)
  /\ UNCHANGED <<variant, healthGets, selectedFile, previewUrl, isLoading, results, resultsFor, apiHealth,
                 isDragging, fileInput, pending, healthProbe, nextUrl>>

\* The caption block of the results panel: `results.caption && (...)`, the text
\* being {results.caption}, between literal quotation marks in the styled
\* variant.  The sequence of caption texts the panel shows for `body`.
CaptionBlock(v, body) ==
  IF Truthy(body.caption)
    THEN <<[before |-> IF v = "styled" THEN "\"" ELSE "",
            text |-> body.caption,
            after |-> IF v = "styled" THEN "\"" ELSE ""]>>
    ELSE <<>>

\* The captions on screen.
CaptionsShown ==
  IF ResultsVisible THEN CaptionBlock(variant, results[1]) ELSE <<>>

\* slice taking the element at `end` too.
slice_IncludesEnd(list, start, end) ==
  SubSeq(list, start + 1, IF end + 1 < Len(list) THEN end + 1 ELSE Len(list))

\* Array.prototype.slice(start, end) on a sequence (0 <= start)
slice(list, start, end) ==
  SubSeq(list, start + 1, IF end < Len(list) THEN end ELSE Len(list))

\* (results.action || results.predicted_action) && ( ... )
ActionRendered(body) == body.action # Absent \/ Truthy(body.predicted_action)

\* results.action ? results.action.X : results.X
ActionFacet(body) == IF body.action # Absent THEN body.action[1] ELSE body

\* digits of toFixed: 2 in the plain variant, 1 in the styled one
FractionDigits(v) == IF v = "plain" THEN 2 ELSE 1

\* {confidence.toFixed(n)}% confidence
ConfidenceText(v, body) ==
  [number |-> toFixed(ActionFacet(body).confidence[1], FractionDigits(v)),
   after |-> "% confidence"]

\* One row of the predictions list: rank, class, bar width and value text.
PredictionItem(v, pred, index) ==
  [rank |-> index + 1, class |-> pred.class, width |-> pred.probability,
   value |-> [number |-> toFixed(pred.probability, FractionDigits(v)), after |-> "%"]]

\* all_predictions[.slice(0, 5)].map((pred, index) => ...)
PredictionRows(v, body) ==
  LET all == ActionFacet(body).all_predictions[1]
      rows == IF v = "styled" THEN slice(all, 0, 5) ELSE all
  IN [i \in 1..Len(rows) |-> PredictionItem(v, rows[i], i - 1)]

\* What the results section shows of the action facet.
ActionShown == ResultsVisible /\ ActionRendered(results[1])
ConfidenceShown == ConfidenceText(variant, results[1])
PredictionsShown == PredictionRows(variant, results[1])

\* Rendering the action block reads .toFixed of the confidence and .slice /
\* .map of all_predictions: a TypeError when either is undefined.
RenderThrows(v, body) ==
  /\ ActionRendered(body)
  /\ \/ ActionFacet(body).confidence = Absent
     \/ ActionFacet(body).all_predictions = Absent

\* An error thrown while rendering is caught nowhere, so React unmounts the
\* component: the screen stays mounted as long as no render threw.
Mounted == ~(ResultsVisible /\ RenderThrows(variant, results[1]))

\* Object URLs created and not revoked: URL.createObjectURL is called by
\* processFile and URL.revokeObjectURL is called nowhere.
LiveUrls == nextUrl - 1

\* ------------------------------------------------------- bounds as guards
CanDispatch == InFlight < MaxPending
CanCreateUrl == nextUrl <= MaxUrls

\* ------------------------------------------- the screen, driven by its UI
ChooseImage == \E f \in UserFiles \cup {NoFile} :
  ChooseImageEnabled /\ (IsImage(f) => CanCreateUrl) /\ handleImageSelect(f)

Drop == \E f \in UserFiles \cup {NoFile} :
  DropEnabled /\ (IsImage(f) => CanCreateUrl) /\ handleDrop(f)

Drag == \E b \in BOOLEAN :
  DropEnabled /\ isDragging # b /\ setIsDragging(b)

ClickLoadSample == LoadSampleEnabled /\ CanDispatch /\ loadSampleImage

SampleSettles == \E r \in SampleResponses :
  (r # "network_error" => CanCreateUrl) /\ loadSampleImageDone(r)

ClickAnalyze == \E m \in Modes : AnalyzeEnabled /\ CanDispatch /\ analyzeImage(m)

AnalysisSettles == \E req \in BagToSet(pending), r \in AnalysisResponses :
  analyzeImageDone(req, r)

ClickReset == ResetEnabled /\ resetAnalysis

ClickDismiss == DismissEnabled /\ dismissError

HealthSettles == \E r \in HealthResponses : checkHealth(r)

Next ==
  \/ ChooseImage
  \/ Drop
  \/ Drag
  \/ ClickLoadSample
  \/ SampleSettles
  \/ ClickAnalyze
  \/ AnalysisSettles
  \/ ClickReset
  \/ ClickDismiss
  \/ HealthSettles

Spec == Init /\ [][Next]_vars

\* ------------------------------- the handlers, called whatever is rendered
\* Each handler of the file, analysis, reset and dismiss controls invoked
\* directly, as a caller holding the functions could, without the render's
\* conditions on the controls; the health probe stays unanswered.
CallImageSelect == \E f \in UserFiles \cup {NoFile} :
  (IsImage(f) => CanCreateUrl) /\ handleImageSelect(f)

CallDrop == \E f \in UserFiles \cup {NoFile} :
  variant = "styled" /\ (IsImage(f) => CanCreateUrl) /\ handleDrop(f)

CanDispatchDirect == InFlight < MaxDirectPending

CallLoadSample == CanDispatchDirect /\ loadSampleImage

CallAnalyze == \E m \in Modes :
  (Truthy(selectedFile) => CanDispatchDirect) /\ analyzeImage(m)

CallReset == resetAnalysis

CallDismiss == dismissError

NextHandlers ==
  \/ CallImageSelect
  \/ CallDrop
  \/ CallLoadSample
  \/ SampleSettles
  \/ CallAnalyze
  \/ AnalysisSettles
  \/ CallReset
  \/ CallDismiss

SpecHandlers == Init /\ [][NextHandlers]_vars

\* ------------------- the screen answered by /api/action and /api/combined
ActionSettles == \E req \in BagToSet(pending), r \in ActionResponses :
  analyzeImageDone(req, r)

NextAction ==
  \/ ChooseImage
  \/ ClickAnalyze
  \/ ActionSettles
  \/ ClickReset

SpecAction == Init /\ [][NextAction]_vars

\* ------------------------ the screen answered by bodies with absent fields
PartialChoose == Mounted /\ ChooseImage

PartialAnalyze == Mounted /\ ClickAnalyze

PartialSettles == \E req \in BagToSet(pending), r \in PartialResponses :
  Mounted /\ analyzeImageDone(req, r)

PartialReset == Mounted /\ ClickReset

NextPartial ==
  \/ PartialChoose
  \/ PartialAnalyze
  \/ PartialSettles
  \/ PartialReset

SpecPartial == Init /\ [][NextPartial]_vars

\* ------------------------------------------------ properties of the screen
\* What the last operation was.
LastAnalysisDone == last.op = "analyzeImageDone"
LastAnalysisFailed ==
  /\ LastAnalysisDone
  /\ (last.resp.kind = "json" => ~Truthy(last.resp.body.success))
LastOfferedNonImage ==
  /\ last.op \in {"handleImageSelect", "handleDrop"}
  /\ last.file # NoFile
  /\ ~IsImage(last.file)
LastAdopted ==
  \/ /\ last.op \in {"handleImageSelect", "handleDrop"}
     /\ last.file # NoFile
     /\ IsImage(last.file)
  \/ /\ last.op = "loadSampleImageDone"
     /\ last.resp.kind # "network_error"

\* C1: at most one sample download or analysis request is in flight at any
\* time, in each variant, over every interleaving of user actions and response
\* arrivals.
C1_SingleFlight == InFlight <= 1

\* C2: whenever an analysis attempt ends in failure (falsy success, or a
\* transport/parse failure), AnalysisResult is null afterwards, whatever the
\* state was before the dispatch.
C2_FailureLeavesNoResult == LastAnalysisFailed => results = NoResults

\* C3: in every reachable state at most one of the loading indicator, the
\* results panel and the error panel is visible, by the variant's own render
\* conditions.
C3_OneView ==
  /\ ~(LoadingVisible /\ ResultsVisible)
  /\ ~(LoadingVisible /\ ErrorVisible)
  /\ ~(ResultsVisible /\ ErrorVisible)

\* C4: Reset, from any reachable state in which its control is available
\* (a request may be pending), returns selectedFile, previewUrl, results and
\* error to null and the loading flag to false, and leaves the file input's
\* value empty.
C4_ResetRestoresAll ==
  last.op = "resetAnalysis" =>
    /\ selectedFile = NULL
    /\ previewUrl = NoUrl
    /\ results = NoResults
    /\ error = NULL
    /\ isLoading = FALSE
    /\ fileInput = ""

\* C5: adopting a valid image through the file picker, a drop or a completed
\* sample download, from any reachable state, leaves SelectedFile equal to that
\* file, error null, AnalysisResult null and PreviewHandle a newly derived
\* handle for that file.
C5_AdoptSetsFile ==
  LastAdopted =>
    /\ selectedFile = last.file
    /\ error = NULL
    /\ results = NoResults
    /\ previewUrl = <<nextUrl - 1, last.file>>
    /\ previewUrl # last.pre.previewUrl

\* C5's case: an image picked while an error and a stored result of an
\* earlier analysis are held.
C5_Witness ==
  /\ LastAdopted
  /\ last.op = "handleImageSelect"
  /\ last.pre.results # NoResults
  /\ last.pre.error # NULL
  /\ selectedFile = last.file

\* C6: offering a file whose media type does not start with 'image/', by the
\* picker or by a drop, leaves SelectedFile, PreviewHandle, AnalysisResult and
\* the loading flag unchanged and issues no network request.
C6_NonImageNoChange ==
  LastOfferedNonImage =>
    /\ selectedFile = last.pre.selectedFile
    /\ previewUrl = last.pre.previewUrl
    /\ results = last.pre.results
    /\ isLoading = last.pre.isLoading
    /\ InFlight = last.pre.inFlight

\* C6's case: a non-image dropped while a stored result is held and a request
\* is in flight.
C6_Witness ==
  /\ LastOfferedNonImage
  /\ last.op = "handleDrop"
  /\ last.pre.results # NoResults
  /\ last.pre.inFlight > 0

\* C7: every rejection of a non-image file, on the file picker and on
\* drag-drop, sets the screen's error message.
C7_RejectionSetsError == LastOfferedNonImage => error # NULL

\* C8: when an analysis request completes the loading flag is false and
\* exactly one outcome applies: truthy success stores the body and error stays
\* null; falsy success sets error to the body's error field or 'Analysis
\* failed' and does not assign AnalysisResult; a network or parse failure sets
\* the variant's connection message and does not assign AnalysisResult.
C8_Outcomes ==
  LastAnalysisDone =>
    /\ isLoading = FALSE
    /\ IF last.resp.kind = "json" /\ Truthy(last.resp.body.success)
         THEN results = <<last.resp.body>> /\ error = NULL
         ELSE IF last.resp.kind = "json"
           THEN /\ error = (IF last.resp.body.error \in {UNDEFINED, ""}
                              THEN "Analysis failed" ELSE last.resp.body.error)
                /\ results = last.pre.results
           ELSE /\ error = MsgConnection(variant)
                /\ results = last.pre.results

\* C9: dispatching analysis, in any mode, while SelectedFile is null issues no
\* network request, sets the error message, and leaves the loading flag,
\* PreviewHandle and AnalysisResult unchanged.
C9_NoFileNoDispatch ==
  (last.op = "analyzeImage" /\ last.pre.selectedFile = NULL) =>
    /\ error # NULL
    /\ InFlight = last.pre.inFlight
    /\ isLoading = last.pre.isLoading
    /\ previewUrl = last.pre.previewUrl
    /\ results = last.pre.results

\* C9's case: analysis dispatched with no file selected.
C9_Witness ==
  /\ last.op = "analyzeImage"
  /\ last.pre.selectedFile = NULL
  /\ last.mode = "combined"
  /\ selectedFile = NULL
  /\ error = MsgSelectFirst

\* C10: from every reachable state in which an error is shown and a file is
\* selected, the user has, among the enabled controls, (a) Dismiss and the
\* analysis of the same file, and (b) a reset or file-selection control to
\* select a different file.
C10_Recoverable ==
  (ErrorVisible /\ selectedFile # NULL) =>
    /\ DismissEnabled
    /\ AnalyzeEnabled
    /\ (ResetEnabled \/ ChooseImageEnabled)

\* C11: exactly one health GET is ever issued; the connectivity flag is true
\* exactly when that probe has settled with a JSON body whose status is
\* 'healthy'; no other operation changes the flag.
C11_HealthOnce ==
  /\ healthGets = 1
  /\ (apiHealth <=> healthProbe = "healthy")

\* C11's case: the probe answered {status: 'down'} and analyses went on.
C11_Witness ==
  /\ healthProbe = "down"
  /\ ~apiHealth
  /\ results # NoResults

\* C12: dismissing an error sets error to null and leaves SelectedFile,
\* PreviewHandle, AnalysisResult, the loading flag and the connectivity flag
\* unchanged, so analysis of the same file can be dispatched again.
C12_DismissOnlyError ==
  [][ClickDismiss =>
       /\ error' = NULL
       /\ UNCHANGED <<selectedFile, previewUrl, results, isLoading, apiHealth>>
       /\ ((selectedFile # NULL /\ ~isLoading) => AnalyzeEnabled')]_vars

\* C12's case: an error dismissed with a file selected and a result held.
C12_Witness ==
  /\ last.op = "dismissError"
  /\ last.pre.error # NULL
  /\ selectedFile # NULL
  /\ results # NoResults
  /\ error = NULL
  /\ AnalyzeEnabled

\* C13: any failure of the sample fetch (rejected by the network, or answered
\* with an error HTTP response) ends with 'Failed to load sample image' set, no
\* file adopted and the loading flag false.
C13_SampleFailure ==
  (last.op = "loadSampleImageDone" /\ last.resp.kind \in {"network_error", "http_error"}) =>
    /\ error = MsgSampleFailed
    /\ selectedFile = last.pre.selectedFile
    /\ previewUrl = last.pre.previewUrl
    /\ results = last.pre.results
    /\ isLoading = FALSE

\* C14 (as stated): whenever results are displayed after a successful response
\* that contains a caption field, the caption shown is exactly that field's
\* string, for every string value.
C14_CaptionShownForEveryString ==
  (ResultsVisible /\ results[1].caption # UNDEFINED) =>
    /\ Len(CaptionsShown) = 1
    /\ CaptionsShown[1].text = results[1].caption

\* C14 (amended): the results held are always the body of the most recent
\* successful response (each success replaces them, and nothing else sets
\* them), and whenever they are displayed with a non-empty caption string the
\* one caption shown is exactly that string; an empty caption shows no caption.
C14_CaptionOfLatestSuccess ==
  /\ (LastAnalysisDone /\ ~LastAnalysisFailed) => results = <<last.resp.body>>
  /\ results # last.pre.results =>
       \/ results = NoResults
       \/ last.op = "analyzeImageDone" /\ results = <<last.resp.body>>
  /\ ResultsVisible =>
       IF results[1].caption \in {UNDEFINED, ""}
         THEN CaptionsShown = <<>>
         ELSE Len(CaptionsShown) = 1 /\ CaptionsShown[1].text = results[1].caption

\* C14's case: a successful response with a caption replaces the displayed
\* result of an earlier analysis that had another caption.
C14_Witness ==
  /\ LastAnalysisDone
  /\ ~LastAnalysisFailed
  /\ last.pre.results # NoResults
  /\ last.pre.results[1].caption \notin {UNDEFINED, "", last.resp.body.caption}
  /\ last.resp.body.caption \notin {UNDEFINED, ""}
  /\ ResultsVisible
  /\ CaptionsShown[1].text = last.resp.body.caption

Confidence87345 == JSONNumber(Dec(87, <<3, 4, 5>>))

\* The results section shows a response whose nested action.confidence is
\* 87.345.
Shows87345 ==
  /\ ActionShown
  /\ results[1].action # Absent
  /\ results[1].action[1].confidence = <<Confidence87345>>

\* C16 (as stated): a nested action.confidence of 87.345 is displayed as
\* '87.3%' in the styled variant and as '87.35%' in the plain variant.
C16_Shows8735 ==
  Shows87345 =>
    ConfidenceShown.number =
      IF variant = "styled" THEN Dec(87, <<3>>) ELSE Dec(87, <<3, 5>>)

\* C16 (amended): a nested action.confidence of 87.345 is displayed as '87.3%'
\* in the styled variant (toFixed(1)) and as '87.34%' in the plain variant
\* (toFixed(2)): the double nearest to 87.345 lies below it.
C16_Shows8734 ==
  Shows87345 =>
    /\ ConfidenceShown.number =
         IF variant = "styled" THEN Dec(87, <<3>>) ELSE Dec(87, <<3, 4>>)
    /\ ConfidenceShown.after = "% confidence"

\* C16's case: the plain variant shows the confidence of such a response.
C16_Witness ==
  /\ Shows87345
  /\ variant = "plain"
  /\ ConfidenceShown.number = Dec(87, <<3, 4>>)

\* C17: a preview handle that is replaced or cleared is revoked, so at most one
\* un-revoked preview object URL exists in every reachable state.
C17_OneLiveUrl == LiveUrls <= 1

\* C18: whenever AnalysisResult is non-null it is the response to a request that
\* carried the currently selected file; it is never non-null while SelectedFile
\* is null.
C18_ResultsOfSelectedFile ==
  results # NoResults => (selectedFile # NULL /\ resultsFor = selectedFile)

\* C19: once the user has manually adopted an image, the completion of a sample
\* download does not replace it: SelectedFile and PreviewHandle stay.
C19_SampleKeepsManualFile ==
  (last.op = "loadSampleImageDone" /\ last.pre.selectedFile \in UserFiles) =>
    /\ selectedFile = last.pre.selectedFile
    /\ previewUrl = last.pre.previewUrl

\* C20: the loading flag is true if and only if a sample download or an
\* analysis POST is still in flight.
C20_LoadingIffInFlight == isLoading <=> InFlight > 0

\* C21: rendering the results of any stored response is total: for every body
\* with truthy success, whichever of caption, action, predicted_action,
\* confidence and all_predictions are present, the render completes without a
\* runtime error.
C21_RenderTotal ==
  ResultsVisible => ~RenderThrows(variant, results[1])

====
